---- MODULE Spec2Model ----
(***************************************************************************)
(* Model of nano::confirmation_height_processor and                        *)
(* nano::pending_confirmation_height (confirmation_height_processor.cpp).  *)
(*                                                                         *)
(* uint64_t values are represented by their two's-complement residue, so   *)
(* the max-uint64 sentinel is -1 and a wrapped difference a - b with a < b *)
(* is the negative integer a - b; the int64_t parameter of write_pending   *)
(* is then the same integer.                                               *)
(***************************************************************************)
EXTENDS Integers, Sequences, FiniteSets, TLC

(* ------------------------------ bounds -------------------------------- *)
\* number of blocks in the ledger (block hashes are 1..NumBlocks)
NumBlocks == 3
\* number of accounts
NumAccounts == 2
\* number of add() calls made by the rest of the node
MaxAdds == 1
\* number of stop() calls (stop() and the destructor's stop())
MaxStops == 2
\* number of add() calls of a caller that waits for the worker to be idle
MaxRuns == 2
\* number of blocks the rest of the node rolls back
MaxRollbacks == 1

(* ------------------------- program constants -------------------------- *)
\* batch_write_size, scaled down from the node's value
batch_write_size == 2
\* the epoch link handed to the constructor; not a block hash
epoch_link == 90
\* source() of the genesis open block: the genesis account key, not a block hash
genesis_source == 91
\* std::numeric_limits<uint64_t>::max () as a two's-complement residue
height_not_set == -1

Accounts == 1 .. NumAccounts
Hashes == 1 .. NumBlocks
\* the hashes of a ledger with one block more
ChainHashes == 1 .. (NumBlocks + 1)
\* link () of a state send block: the destination account key, not a block hash
Destination(a) == 100 + a
Links == {0, epoch_link, genesis_source} \cup {Destination(a) : a \in Accounts} \cup Hashes

None == [none |-> TRUE]

VARIABLES
    \* nano::block_store
    blocks,                      \* hash -> [account, link]: the ledger
    account_confirmation_height, \* account -> account_info.confirmation_height
    \* nano::pending_confirmation_height and the processor's flag
    pending, current_hash, stopped,
    \* threads
    wpc,                         \* position of the worker thread in run ()
    apc, adds,                   \* position of the thread calling add (), calls made
    spc, stops, joinable,        \* position of the thread calling stop (), calls made, thread.joinable ()
    \* add_confirmation_height
    hash_a, current, receive_details, pending_writes, confirmed_iterated_pairs,
    receive_source_pairs, receive_source_pairs_size, error, read_transaction,
    block_height, account, confirmation_height, iterated_height, count_before_receive,
    \* collect_unconfirmed_receive_and_sources_for_account
    hash, num_to_confirm, next_height,
    \* write_pending
    total_pending_write_block_count, num_accounts_processed, transaction,
    \* observations of the run, kept for the properties
    obs

store_vars == <<blocks, account_confirmation_height>>
queue_vars == <<pending, current_hash>>
adder_vars == <<apc, adds>>
stop_vars == <<spc, stops, joinable>>
ach_vars == <<hash_a, current, receive_details, pending_writes, confirmed_iterated_pairs,
              receive_source_pairs, receive_source_pairs_size, error, read_transaction>>
iter_vars == <<block_height, account, confirmation_height, iterated_height, count_before_receive>>
collect_vars == <<hash, num_to_confirm, next_height>>
write_vars == <<total_pending_write_block_count, num_accounts_processed, transaction>>
vars == <<store_vars, queue_vars, stopped, wpc, adder_vars, stop_vars, ach_vars, iter_vars,
          collect_vars, write_vars, obs>>

(* ------------------------------ the store ------------------------------ *)
\* store.block_account
block_account(l, h) == l[h].account
\* store.block_account_height: 1-based position of the block in its account chain
block_account_height(l, h) == Cardinality({j \in DOMAIN l : j <= h /\ l[j].account = l[h].account})
\* block->previous (): the block below in the same account chain, zero for an open block
previous(l, h) ==
    LET below == {j \in DOMAIN l : j < h /\ l[j].account = l[h].account}
    IN  IF below = {} THEN 0 ELSE CHOOSE j \in below : \A k \in below : k <= j
\* block->source (), or block->link () when the source is zero
block_source(l, h) == l[h].link
\* store.source_exists
source_exists(l, s) == s \in DOMAIN l
\* number of blocks of an account
chain_length(l, a) == Cardinality({h \in DOMAIN l : l[h].account = a})

\* A ledger the node's block processing accepts. Hashes are numbered in the order
\* the blocks were added, so a source precedes its receive; block 1 is the genesis
\* open block; every other open block is a receive; a receive names a send to its
\* own account that no other block has received.
ValidLedger(l) ==
    /\ l[1] = [account |-> 1, link |-> genesis_source]
    /\ \A h \in DOMAIN l \ {1} :
        /\ l[h].link # genesis_source
        /\ l[h].account > 1 => \E j \in 1 .. (h - 1) : l[j].account >= l[h].account - 1
        /\ previous(l, h) = 0 => l[h].link \in DOMAIN l
        /\ l[h].link \in DOMAIN l =>
            /\ l[h].link < h
            /\ l[l[h].link].link = Destination(l[h].account)
            /\ \A j \in DOMAIN l \ {h} : l[j].link # l[h].link
Ledgers == {l \in [Hashes -> [account : Accounts, link : Links]] : ValidLedger(l)}
\* the ledgers of one account, the genesis account, with one block more
ChainLedgers == {l \in [ChainHashes -> [account : {1}, link : Links]] : ValidLedger(l)}
\* a ledger with a mutual send and a self-send: account 1 sends to account 2 (block
\* 2), which opens with it (3) and sends back (4); account 1 receives that (5),
\* sends to itself (6) and receives its own send (7)
CycleLedger ==
    << [account |-> 1, link |-> genesis_source], [account |-> 1, link |-> Destination(2)],
       [account |-> 2, link |-> 2], [account |-> 2, link |-> Destination(1)],
       [account |-> 1, link |-> 4], [account |-> 1, link |-> Destination(1)],
       [account |-> 1, link |-> 6] >>
CycleLedgers == {l \in {CycleLedger} : ValidLedger(l)}
\* every hash of the ledgers above
AllHashes == ChainHashes \cup DOMAIN CycleLedger

\* the receive blocks with a source to follow (line 337)
HasSource(l, h) ==
    LET s == block_source(l, h) IN s # 0 /\ s # epoch_link /\ source_exists(l, s)
\* a block is confirmed when its height is within its account's confirmation height
Confirmed(l, c, h) == block_account_height(l, h) <= c[block_account(l, h)]
\* every confirmed receive has a confirmed source
DependencyClosed(l, c) ==
    \A h \in DOMAIN l : (Confirmed(l, c, h) /\ HasSource(l, h)) => Confirmed(l, c, block_source(l, h))
\* the confirmation heights a store can hold: genesis is confirmed from the start
Heights(l) ==
    {c \in [Accounts -> 0 .. NumBlocks] :
        /\ c[1] >= 1
        /\ \A a \in Accounts : c[a] <= chain_length(l, a)
        /\ DependencyClosed(l, c)}

(* --------------------- pending_confirmation_height --------------------- *)
\* is_processing_block without the is_zero test on the current hash
is_processing_block_NoZeroTest(cur, pend, h) == cur = h \/ h \in pend

\* pending_confirmation_height::is_processing_block
is_processing_block(cur, pend, h) ==
    IF cur # 0 /\ cur = h THEN TRUE ELSE h \in pend

\* a notification that reaches no thread
notify_one_Lost(w) == w

\* condition.notify_one (): wakes the worker when it is blocked in condition.wait
notify_one(w) == IF w = "waiting" THEN "woken" ELSE w

\* the worker owns pending_confirmations.mutex between lock and unlock / wait
WorkerHoldsMutex == wpc \in {"check", "body", "towait"}

(* -------------------------- values of the locals ----------------------- *)
conf_height_details(acc, h, height, n) ==
    [account |-> acc, hash |-> h, height |-> height, num_blocks_confirmed |-> n]
receive_source_pair(details, source) == [receive_details |-> details, source_hash |-> source]
confirmed_iterated_pair(c, i) == [confirmed_height |-> c, iterated_height |-> i]

NoPairs == [a \in Accounts |-> None]
NoCalls == [h \in AllHashes |-> 0]

\* the locals of add_confirmation_height outside an invocation
AchIdle ==
    /\ hash_a = 0 /\ current = 0 /\ receive_details = None /\ pending_writes = <<>>
    /\ confirmed_iterated_pairs = NoPairs /\ error = FALSE /\ read_transaction = "none"
IterIdle ==
    /\ block_height = 0 /\ account = 0 /\ confirmation_height = 0 /\ iterated_height = 0
    /\ count_before_receive = 0
CollectIdle == hash = 0 /\ num_to_confirm = 0 /\ next_height = height_not_set
WriteIdle == total_pending_write_block_count = 0 /\ num_accounts_processed = 0 /\ transaction = "none"

\* what the properties record about the run: the heights, the confirm_block calls
\* and the blocks visited by the descents of the invocation in progress, what was
\* handed to write_pending, which hashes add ()
\* has returned for, how invocations ended (interrupted: left at the stopped test
\* with work remaining), and the invalid_block counter of stats
ObsInit(c) ==
    [start |-> c, calls |-> NoCalls, skipped |-> {}, visits |-> NoCalls, handed |-> 0, applied |-> 0,
     call_start |-> c, call_total |-> 0, tx_start |-> c, tx_total |-> 0, tx_count |-> 0,
     owed |-> {}, completed |-> {}, worked |-> {}, rerun |-> FALSE, exit |-> "none",
     invalid_block |-> 0, interrupted |-> {}]

InitOn(ledgers) ==
    /\ blocks \in ledgers
    /\ account_confirmation_height \in Heights(blocks)
    /\ pending = {} /\ current_hash = 0 /\ stopped = FALSE
    /\ wpc = "start"
    /\ apc = [pc |-> "idle"] /\ adds = 0
    /\ spc = "idle" /\ stops = 0 /\ joinable = TRUE
    /\ AchIdle /\ IterIdle /\ CollectIdle /\ WriteIdle
    /\ receive_source_pairs = <<>> /\ receive_source_pairs_size = 0
    /\ obs = ObsInit(account_confirmation_height)
Init == InitOn(Ledgers)

(* --------------------------------- add --------------------------------- *)
\* add, lines 84-87: insert under the mutex
AddInsert(h) ==
    /\ apc.pc = "idle" /\ adds < MaxAdds
    /\ ~WorkerHoldsMutex
    /\ pending' = pending \cup {h}
    /\ apc' = [pc |-> "notify", hash |-> h, served |-> FALSE]
    /\ adds' = adds + 1
    /\ UNCHANGED <<store_vars, current_hash, stopped, wpc, stop_vars, ach_vars, iter_vars,
                   collect_vars, write_vars, obs>>

\* add, line 88: notify and return
AddNotify ==
    /\ apc.pc = "notify"
    /\ wpc' = notify_one(wpc)
    /\ apc' = [pc |-> "idle"]
    /\ obs' = [obs EXCEPT !.owed = IF apc.served THEN @ ELSE @ \cup {apc.hash}]
    /\ UNCHANGED <<store_vars, queue_vars, stopped, adds, stop_vars, ach_vars, iter_vars,
                   collect_vars, write_vars>>

(* --------------------------------- stop -------------------------------- *)
\* stop, line 51: the flag is set without the mutex
StopSet ==
    /\ spc = "idle" /\ stops < MaxStops
    /\ stopped' = TRUE
    /\ spc' = "notify"
    /\ stops' = stops + 1
    /\ UNCHANGED <<store_vars, queue_vars, wpc, adder_vars, joinable, ach_vars, iter_vars,
                   collect_vars, write_vars, obs>>

\* stop, lines 52-53
StopNotify ==
    /\ spc = "notify"
    /\ wpc' = notify_one(wpc)
    /\ spc' = IF joinable THEN "join" ELSE "idle"
    /\ UNCHANGED <<store_vars, queue_vars, stopped, adder_vars, stops, joinable, ach_vars,
                   iter_vars, collect_vars, write_vars, obs>>

\* stop, line 55: thread.join () returns once run () has returned
StopJoin ==
    /\ spc = "join"
    /\ wpc = "done"
    /\ joinable' = FALSE
    /\ spc' = "idle"
    /\ UNCHANGED <<store_vars, queue_vars, stopped, wpc, adder_vars, stops, ach_vars,
                   iter_vars, collect_vars, write_vars, obs>>

(* --------------------------------- run --------------------------------- *)
worker_rest == <<store_vars, stopped, adder_vars, stop_vars>>

\* run, line 61: the thread starts and takes the mutex
RunStart ==
    /\ wpc = "start"
    /\ wpc' = "check"
    /\ UNCHANGED <<worker_rest, queue_vars, ach_vars, iter_vars,
                   collect_vars, write_vars, obs>>

\* run, line 62: the loop ends when stopped is set
RunExit ==
    /\ wpc = "check" /\ stopped
    /\ wpc' = "done"
    /\ UNCHANGED <<worker_rest, queue_vars, ach_vars, iter_vars, collect_vars, write_vars, obs>>

\* run, line 62: stopped is not set, the loop body is entered. stop () writes the
\* flag without the mutex, so the flag can change between this test and the body.
RunLoop ==
    /\ wpc = "check" /\ ~stopped
    /\ wpc' = "body"
    /\ UNCHANGED <<worker_rest, queue_vars, ach_vars, iter_vars, collect_vars, write_vars, obs>>

\* a dequeue that erases the hash from pending and leaves current_hash to be set
\* after the mutex is released
RunDequeue_EraseOnly ==
    /\ wpc = "body" /\ pending # {}
    /\ \E h \in pending :
        /\ pending' = pending \ {h}
        /\ hash_a' = h
    /\ wpc' = "begin"
    /\ UNCHANGED <<store_vars, stopped, adder_vars, stop_vars, current_hash, current,
                   receive_details, pending_writes, confirmed_iterated_pairs,
                   receive_source_pairs, receive_source_pairs_size, error, read_transaction,
                   iter_vars, collect_vars, write_vars, obs>>

\* run, lines 64-70: take some element of pending as the current hash
RunDequeue ==
    /\ wpc = "body" /\ pending # {}
    /\ \E h \in pending :
        /\ current_hash' = h
        /\ pending' = pending \ {h}
        /\ hash_a' = h
    /\ wpc' = "begin"
    /\ UNCHANGED <<worker_rest, current, receive_details, pending_writes, confirmed_iterated_pairs,
                   receive_source_pairs, receive_source_pairs_size, error, read_transaction,
                   iter_vars, collect_vars, write_vars, obs>>

\* run, lines 64 and 75: pending is empty, the worker goes on to wait
RunElse ==
    /\ wpc = "body" /\ pending = {}
    /\ wpc' = "towait"
    /\ UNCHANGED <<worker_rest, queue_vars, ach_vars, iter_vars, collect_vars, write_vars, obs>>

\* run, line 77: condition.wait releases the mutex and blocks
RunWait ==
    /\ wpc = "towait"
    /\ wpc' = "waiting"
    /\ UNCHANGED <<worker_rest, queue_vars, ach_vars, iter_vars, collect_vars, write_vars, obs>>

\* run, line 77: condition.wait returns with the mutex held, after a notify
RunWake ==
    /\ wpc = "woken"
    /\ wpc' = "check"
    /\ UNCHANGED <<worker_rest, queue_vars, ach_vars, iter_vars, collect_vars, write_vars, obs>>

\* run, line 77: condition.wait may return without a notify
RunSpuriousWake ==
    /\ wpc = "waiting"
    /\ wpc' = "woken"
    /\ UNCHANGED <<worker_rest, queue_vars, ach_vars, iter_vars, collect_vars, write_vars, obs>>

\* run, lines 72-73: back under the mutex, no hash is current
RunFinish ==
    /\ wpc = "return"
    /\ current_hash' = 0
    /\ wpc' = "check"
    /\ obs' = [ObsInit(account_confirmation_height) EXCEPT
                    !.owed = obs.owed \ {current_hash}, !.completed = obs.completed,
                    !.worked = obs.worked, !.invalid_block = obs.invalid_block,
                    !.interrupted = obs.interrupted]
    /\ apc' = IF apc.pc = "notify" /\ apc.hash = current_hash THEN [apc EXCEPT !.served = TRUE] ELSE apc
    /\ UNCHANGED <<store_vars, stopped, adds, stop_vars, pending, ach_vars, iter_vars, collect_vars,
                   write_vars>>

(* ----------------------- add_confirmation_height ----------------------- *)
ach_rest == <<worker_rest, queue_vars>>
Back(stack) == stack[Len(stack)]
Front(q) == q[1]

\* the locals go out of scope when add_confirmation_height returns
LocalsDestroyed ==
    /\ hash_a' = 0 /\ current' = 0 /\ receive_details' = None /\ pending_writes' = <<>>
    /\ confirmed_iterated_pairs' = NoPairs /\ error' = FALSE /\ read_transaction' = "none"
    /\ block_height' = 0 /\ account' = 0 /\ confirmation_height' = 0 /\ iterated_height' = 0
    /\ count_before_receive' = 0
    /\ hash' = 0 /\ num_to_confirm' = 0 /\ next_height' = height_not_set
    /\ total_pending_write_block_count' = 0 /\ num_accounts_processed' = 0 /\ transaction' = "none"

\* lines 99-112: the locals are set up, the stack is asserted empty, the read
\* transaction begins
AchBegin ==
    /\ wpc = "begin"
    /\ current' = hash_a
    /\ receive_details' = None
    /\ pending_writes' = <<>>
    /\ confirmed_iterated_pairs' = NoPairs
    /\ error' = FALSE
    /\ read_transaction' = "active"
    /\ wpc' = IF receive_source_pairs_size = 0 /\ receive_source_pairs = <<>> THEN "iter" ELSE "aborted"
    /\ obs' = [obs EXCEPT !.rerun = hash_a \in obs.completed]
    /\ UNCHANGED <<ach_rest, hash_a, receive_source_pairs, receive_source_pairs_size,
                   iter_vars, collect_vars, write_vars>>

\* a pass that does not go back to the original hash when the stack is empty
NextCurrent_NoReturn(stack, details, cur, top) ==
    IF stack # <<>> THEN Back(stack).source_hash ELSE cur

\* lines 116-131: the hash this iteration looks at, and the receive it stands for
NextCurrent(stack, details, cur, top) ==
    IF stack # <<>> THEN Back(stack).source_hash
    ELSE IF details # None THEN top ELSE cur
NextReceiveDetails(stack, details) ==
    IF stack # <<>> THEN Back(stack).receive_details ELSE None

\* a confirmation height taken from the invocation's record alone, not from the store
StartConfirmationHeight_RecordOnly(stored, pair) ==
    IF pair # None THEN pair.confirmed_height ELSE 0
\* an iterated height that forgets what the invocation has already scanned
StartIteratedHeight_NoRecord(stored, pair) ==
    IF pair # None /\ pair.confirmed_height > stored THEN pair.confirmed_height ELSE stored
\* an iterated height that starts from zero instead of the stored confirmation height
StartIteratedHeight_FromZero(stored, pair) ==
    IF pair # None THEN pair.iterated_height ELSE 0

\* an iterated height taken from the store alone
StartIteratedHeight_StoredOnly(stored, pair) == stored

\* lines 136-150: the confirmation and iterated heights of the account, raised to
\* what this invocation has recorded for it
StartConfirmationHeight(stored, pair) ==
    IF pair # None /\ pair.confirmed_height > stored THEN pair.confirmed_height ELSE stored
StartIteratedHeight(stored, pair) ==
    LET c == StartConfirmationHeight(stored, pair)
    IN  IF pair # None /\ pair.iterated_height > c THEN pair.iterated_height ELSE c

\* lines 116-161: one pass of the do-while loop up to the descent. The store has
\* no account for a block it does not hold: the release_assert of line 135 ends
\* the process.
AchIter ==
    /\ wpc = "iter"
    /\ LET cur == NextCurrent(receive_source_pairs, receive_details, current, hash_a)
           acc == block_account(blocks, cur)
           height == block_account_height(blocks, cur)
           stored == account_confirmation_height[acc]
           pair == confirmed_iterated_pairs[acc]
           iterated == StartIteratedHeight(stored, pair)
       IN  IF ~source_exists(blocks, cur)
           THEN /\ wpc' = "aborted"
                /\ UNCHANGED <<current, receive_details, iter_vars, collect_vars>>
           ELSE /\ current' = cur
                /\ receive_details' = NextReceiveDetails(receive_source_pairs, receive_details)
                /\ block_height' = height
                /\ account' = acc
                /\ confirmation_height' = StartConfirmationHeight(stored, pair)
                /\ iterated_height' = iterated
                /\ count_before_receive' = Len(receive_source_pairs)
                /\ IF height > iterated
                   THEN /\ hash' = cur
                        /\ num_to_confirm' = height - iterated
                        /\ next_height' = height_not_set
                        /\ wpc' = "collect"
                   ELSE /\ UNCHANGED collect_vars
                        /\ wpc' = "decide"
    /\ UNCHANGED <<ach_rest, hash_a, pending_writes, confirmed_iterated_pairs, receive_source_pairs,
                   receive_source_pairs_size, error, read_transaction, write_vars, obs>>

(* ---------- collect_unconfirmed_receive_and_sources_for_account -------- *)
\* lines 339-348: a receive is pushed, after the receive above it on this descent
\* (if any) is given its number of blocks
PushReceive(stack, acc, h, height, above, source) ==
    LET fixed == IF above # height_not_set
                 THEN [stack EXCEPT ![Len(stack)].receive_details.num_blocks_confirmed = above - height]
                 ELSE stack
    IN  Append(fixed, receive_source_pair(conf_height_details(acc, h, height, height_not_set), source))

\* lines 364-367: the last frame of the stack is given its number of blocks
FixLastReceive(stack, down_to) ==
    IF stack # <<>>
    THEN [stack EXCEPT ![Len(stack)].receive_details.num_blocks_confirmed =
                            Back(stack).receive_details.height - down_to]
    ELSE stack

\* lines 321-361: one block of the descent. The read transaction keeps the view of
\* the store it began with, so block_get finds every block of the chain; the chains
\* of the model are shorter than batch_read_size, so line 357 is not reached.
CollectVisit ==
    /\ wpc = "collect"
    /\ num_to_confirm > 0 /\ hash # 0
    /\ LET processing == is_processing_block(current_hash, pending, hash)
           source == block_source(blocks, hash)
           height == iterated_height + num_to_confirm
       IN  /\ obs' = IF processing
                     THEN [obs EXCEPT !.skipped = @ \cup {hash}, !.visits[hash] = @ + 1]
                     ELSE [obs EXCEPT !.calls[hash] = @ + 1, !.visits[hash] = @ + 1]
           /\ IF source # 0 /\ source # epoch_link /\ source_exists(blocks, source)
              THEN /\ receive_source_pairs' =
                        PushReceive(receive_source_pairs, account, hash, height, next_height, source)
                   /\ receive_source_pairs_size' = receive_source_pairs_size + 1
                   /\ next_height' = height
              ELSE UNCHANGED <<receive_source_pairs, receive_source_pairs_size, next_height>>
    /\ hash' = previous(blocks, hash)
    /\ num_to_confirm' = num_to_confirm - 1
    /\ UNCHANGED <<ach_rest, wpc, hash_a, current, receive_details, pending_writes,
                   confirmed_iterated_pairs, error, read_transaction, iter_vars, write_vars>>

\* lines 321 and 363-367: the descent ends
CollectEnd ==
    /\ wpc = "collect"
    /\ ~(num_to_confirm > 0 /\ hash # 0)
    /\ receive_source_pairs' = FixLastReceive(receive_source_pairs, iterated_height)
    /\ wpc' = "decide"
    /\ UNCHANGED <<ach_rest, hash_a, current, receive_details, pending_writes,
                   confirmed_iterated_pairs, receive_source_pairs_size, error, read_transaction,
                   iter_vars, collect_vars, write_vars, obs>>

(* ------------------ add_confirmation_height, continued ----------------- *)
\* a pass that leaves no record of the account entry it has queued
ConfirmAccount_NotRecorded(pairs, acc, height, iterated) == pairs

\* lines 174-185: the account is recorded as confirmed up to the block
ConfirmAccount(pairs, acc, height, iterated) ==
    IF pairs[acc] # None
    THEN [pairs EXCEPT ![acc] =
            confirmed_iterated_pair(height, IF height > iterated THEN height ELSE @.iterated_height)]
    ELSE [pairs EXCEPT ![acc] = confirmed_iterated_pair(height, height)]

\* an entry that counts every block of the chain up to the current block
AccountEntry_WholeChain(acc, h, height, conf) == conf_height_details(acc, h, height, height)

\* line 187: the entry for the account of the current block
AccountEntry(acc, h, height, conf) == conf_height_details(acc, h, height, height - conf)

\* lines 193-205: the receive is recorded as confirmed
ConfirmReceive(pairs, details) ==
    IF pairs[details.account] # None
    THEN [pairs EXCEPT ![details.account].confirmed_height = details.height]
    ELSE [pairs EXCEPT ![details.account] = confirmed_iterated_pair(details.height, details.height)]

\* a receive entry that keeps the number of blocks the descent gave it
ReceiveEntry_Unreconciled(pairs, details) == details

\* lines 198-200: the receive's number of blocks, counted from what the invocation
\* has recorded as confirmed for its account
ReceiveEntry(pairs, details) ==
    IF pairs[details.account] # None
    THEN [details EXCEPT !.num_blocks_confirmed = details.height - pairs[details.account].confirmed_height]
    ELSE details

\* a pass that records nothing about the blocks it has scanned
IterateAccount_NotRecorded(pairs, acc, height, conf) == pairs

\* lines 219-226: the account is recorded as iterated up to the block
IterateAccount(pairs, acc, height, conf) ==
    IF pairs[acc] # None
    THEN [pairs EXCEPT ![acc].iterated_height = height]
    ELSE [pairs EXCEPT ![acc] = confirmed_iterated_pair(conf, height)]

\* entries queued at the front
push_back_AtFront(q, entry) == <<entry>> \o q

\* lines 187 and 207: emplace_back / push_back on the deque
push_back(q, entry) == Append(q, entry)

\* lines 230-232
RECURSIVE accumulate(_)
accumulate(q) == IF q = <<>> THEN 0 ELSE Front(q).num_blocks_confirmed + accumulate(Tail(q))

\* a write only when the batch is full
ShouldWrite_FullBatchOnly(q, stack) == Len(q) >= batch_write_size /\ q # <<>>

\* line 234
ShouldWrite(q, stack) == (Len(q) >= batch_write_size \/ stack = <<>>) /\ q # <<>>

\* a read transaction that stays as it is
reset_NotDone(t) == t

\* line 164: the read transaction is reset
reset(t) == "reset"

\* lines 164-234: the read transaction is reset; when the descent found no receive,
\* the entries of the account and of the receive are queued and the frame is popped;
\* then the queue is written or not
AchDecide ==
    /\ wpc = "decide"
    /\ read_transaction' = reset(read_transaction)
    /\ LET confirmed_receives_pending == count_before_receive # Len(receive_source_pairs)
           raise == block_height > confirmation_height
           pairs1 == IF raise
                     THEN ConfirmAccount(confirmed_iterated_pairs, account, block_height, iterated_height)
                     ELSE confirmed_iterated_pairs
           writes1 == IF raise
                      THEN push_back(pending_writes, AccountEntry(account, current, block_height, confirmation_height))
                      ELSE pending_writes
           details == IF receive_details # None THEN ReceiveEntry(pairs1, receive_details) ELSE None
           pairs2 == IF receive_details # None THEN ConfirmReceive(pairs1, receive_details) ELSE pairs1
           writes2 == IF receive_details # None THEN push_back(writes1, details) ELSE writes1
           stack == IF receive_source_pairs # <<>>
                    THEN SubSeq(receive_source_pairs, 1, Len(receive_source_pairs) - 1)
                    ELSE receive_source_pairs
           size == IF receive_source_pairs # <<>> THEN receive_source_pairs_size - 1
                   ELSE receive_source_pairs_size
       IN  IF ~confirmed_receives_pending
           THEN /\ confirmed_iterated_pairs' = pairs2
                /\ pending_writes' = writes2
                /\ receive_details' = details
                /\ receive_source_pairs' = stack
                /\ receive_source_pairs_size' = size
           ELSE /\ confirmed_iterated_pairs' =
                    IF block_height > iterated_height
                    THEN IterateAccount(confirmed_iterated_pairs, account, block_height, confirmation_height)
                    ELSE confirmed_iterated_pairs
                /\ UNCHANGED <<pending_writes, receive_details, receive_source_pairs,
                               receive_source_pairs_size>>
    /\ IF ShouldWrite(pending_writes', receive_source_pairs')
       THEN /\ total_pending_write_block_count' = accumulate(pending_writes')
            /\ wpc' = "wp_outer"
            /\ obs' = [obs EXCEPT !.handed = @ + accumulate(pending_writes'),
                                  !.call_start = account_confirmation_height,
                                  !.call_total = accumulate(pending_writes')]
       ELSE /\ wpc' = "stopcheck"
            /\ UNCHANGED <<total_pending_write_block_count, obs>>
    /\ UNCHANGED <<ach_rest, hash_a, current, error, iter_vars, collect_vars,
                   num_accounts_processed, transaction>>

(* ----------------------------- write_pending --------------------------- *)
\* the account put with the entry's number of blocks in place of its height
account_put_Count(c, entry) == [c EXCEPT ![entry.account] = entry.num_blocks_confirmed]

\* lines 296-297: the account is put with the entry's height
account_put(c, entry) == [c EXCEPT ![entry.account] = entry.height]

\* a count that goes down by a batch of blocks for each entry
remaining_ByBatch(total, entry) == total - batch_write_size

\* line 299: the blocks left to write after the entry
remaining(total, entry) == total - entry.num_blocks_confirmed

\* line 275
ShouldApply(c, entry) == entry.height > c[entry.account]

\* lines 266-269: a write transaction begins while blocks remain to be counted
WpTransaction ==
    /\ wpc = "wp_outer"
    /\ total_pending_write_block_count > 0
    /\ num_accounts_processed' = 0
    /\ transaction' = "open"
    /\ wpc' = "wp_inner"
    /\ obs' = [obs EXCEPT !.tx_count = @ + 1, !.tx_start = account_confirmation_height,
                          !.tx_total = 0]
    /\ UNCHANGED <<ach_rest, ach_vars, iter_vars, collect_vars, total_pending_write_block_count>>

\* lines 266 and 310: write_pending returns false; line 244
WpReturn ==
    /\ wpc = "wp_outer"
    /\ ~(total_pending_write_block_count > 0)
    /\ wpc' = "stopcheck"
    /\ UNCHANGED <<ach_rest, ach_vars, iter_vars, collect_vars, write_vars, obs>>

\* a write that does not look for the block
block_get_Unchecked(l, h) == TRUE

\* lines 280-287: store.block_get returns a block
block_get(l, h) == h \in DOMAIN l

\* lines 270-307: the entry at the front of the queue. A missing block ends
\* write_pending with an error, and add_confirmation_height at lines 238-243.
WpEntry ==
    /\ wpc = "wp_inner"
    /\ pending_writes # <<>>
    /\ LET entry == Front(pending_writes)
           apply == ShouldApply(account_confirmation_height, entry)
       IN  IF apply /\ ~block_get(blocks, entry.hash)
           THEN /\ LocalsDestroyed
                /\ receive_source_pairs' = <<>>
                /\ receive_source_pairs_size' = 0
                /\ wpc' = "return"
                /\ obs' = [obs EXCEPT !.exit = "error", !.invalid_block = @ + 1]
                /\ UNCHANGED account_confirmation_height
           ELSE /\ account_confirmation_height' =
                    IF apply THEN account_put(account_confirmation_height, entry)
                    ELSE account_confirmation_height
                /\ total_pending_write_block_count' =
                    remaining(total_pending_write_block_count, entry)
                /\ num_accounts_processed' = num_accounts_processed + 1
                /\ pending_writes' = Tail(pending_writes)
                /\ IF num_accounts_processed + 1 >= batch_write_size
                   THEN transaction' = "none" /\ wpc' = "wp_outer"
                   ELSE UNCHANGED <<transaction, wpc>>
                /\ obs' = [obs EXCEPT !.applied = @ + (IF apply THEN 1 ELSE 0),
                                      !.tx_total = @ + entry.num_blocks_confirmed]
                /\ UNCHANGED <<hash_a, current, receive_details, confirmed_iterated_pairs,
                               receive_source_pairs, receive_source_pairs_size, error,
                               read_transaction, iter_vars, collect_vars>>
    /\ UNCHANGED <<blocks, stopped, adder_vars, stop_vars, queue_vars>>

\* lines 270 and 308-309: the queue is empty, the write transaction ends
WpCommit ==
    /\ wpc = "wp_inner"
    /\ pending_writes = <<>>
    /\ transaction' = "none"
    /\ wpc' = "wp_outer"
    /\ UNCHANGED <<ach_rest, ach_vars, iter_vars, collect_vars, total_pending_write_block_count,
                   num_accounts_processed, obs>>

(* ------------------ add_confirmation_height, the loop end -------------- *)
\* lines 248-251: stopped is set, the loop is left
AchStopped ==
    /\ wpc = "stopcheck"
    /\ stopped
    /\ LocalsDestroyed
    /\ wpc' = "return"
    /\ obs' = [obs EXCEPT !.exit = "stopped",
                          !.interrupted = IF receive_source_pairs # <<>> \/ current # hash_a
                                          THEN @ \cup {hash_a} ELSE @]
    /\ UNCHANGED <<ach_rest, receive_source_pairs, receive_source_pairs_size>>

\* lines 253-254: the read transaction is renewed and the loop goes on
AchNext ==
    /\ wpc = "stopcheck"
    /\ ~stopped
    /\ receive_source_pairs # <<>> \/ current # hash_a
    /\ read_transaction' = "active"
    /\ wpc' = "iter"
    /\ UNCHANGED <<ach_rest, hash_a, current, receive_details, pending_writes,
                   confirmed_iterated_pairs, receive_source_pairs, receive_source_pairs_size,
                   error, iter_vars, collect_vars, write_vars, obs>>

\* lines 253-255: the loop ends, add_confirmation_height returns
AchComplete ==
    /\ wpc = "stopcheck"
    /\ ~stopped
    /\ ~(receive_source_pairs # <<>> \/ current # hash_a)
    /\ LocalsDestroyed
    /\ wpc' = "return"
    /\ obs' = [obs EXCEPT !.exit = "complete", !.completed = @ \cup {hash_a},
                          !.worked = IF obs.applied > 0 THEN @ \cup {hash_a} ELSE @]
    /\ UNCHANGED <<ach_rest, receive_source_pairs, receive_source_pairs_size>>

(* ------------------------------ the system ----------------------------- *)
Adder == (\E h \in Hashes : AddInsert(h)) \/ AddNotify
Stopper == StopSet \/ StopNotify \/ StopJoin
Run == RunStart \/ RunExit \/ RunLoop \/ RunDequeue \/ RunElse \/ RunWait \/ RunWake \/ RunSpuriousWake \/ RunFinish
AddConfirmationHeight ==
    AchBegin \/ AchIter \/ CollectVisit \/ CollectEnd \/ AchDecide \/ WpTransaction \/ WpReturn
    \/ WpEntry \/ WpCommit \/ AchStopped \/ AchNext \/ AchComplete
Next == Adder \/ Stopper \/ Run \/ AddConfirmationHeight

Spec == Init /\ [][Next]_vars

\* add () by a caller that waits until the worker is idle: lines 84-88 with no
\* step of the worker in between
SeqAdd(h) ==
    /\ wpc = "waiting" /\ adds < MaxRuns
    /\ pending' = pending \cup {h}
    /\ wpc' = notify_one(wpc)
    /\ adds' = adds + 1
    /\ obs' = [obs EXCEPT !.owed = @ \cup {h}]
    /\ UNCHANGED <<store_vars, current_hash, stopped, apc, stop_vars, ach_vars, iter_vars,
                   collect_vars, write_vars>>

RunSeq == RunStart \/ RunLoop \/ RunDequeue \/ RunElse \/ RunWait \/ RunWake \/ RunFinish
AddConfirmationHeightSeq ==
    AchBegin \/ AchIter \/ CollectVisit \/ CollectEnd \/ AchDecide \/ WpTransaction \/ WpReturn
    \/ WpEntry \/ WpCommit \/ AchNext \/ AchComplete
NextSeq == (\E h \in Hashes : SeqAdd(h)) \/ RunSeq \/ AddConfirmationHeightSeq

\* the processor with one caller that adds a hash whenever the worker is idle, and
\* no stop ()
SpecSeq == Init /\ [][NextSeq]_vars

\* the rest of the node rolls back a block: the top block of an account chain,
\* above the account's confirmation height, that no receive names as its source.
\* A rollback runs in the store's write transaction, and the worker's read
\* transaction keeps the view it began with: the worker sees the rollback from its
\* next transaction on.
Rollback(h) ==
    /\ Cardinality(DOMAIN blocks) > NumBlocks - MaxRollbacks
    /\ h \in DOMAIN blocks /\ h # 1
    /\ read_transaction # "active" /\ transaction # "open"
    /\ \A j \in DOMAIN blocks : j > h => block_account(blocks, j) # block_account(blocks, h)
    /\ \A j \in DOMAIN blocks : block_source(blocks, j) # h
    /\ ~Confirmed(blocks, account_confirmation_height, h)
    /\ blocks' = [j \in DOMAIN blocks \ {h} |-> blocks[j]]
    /\ UNCHANGED <<account_confirmation_height, queue_vars, stopped, wpc, adder_vars, stop_vars,
                   ach_vars, iter_vars, collect_vars, write_vars, obs>>

NextRollback == NextSeq \/ (\E h \in Hashes : Rollback(h))

\* the processor with one caller that adds a hash whenever the worker is idle, no
\* stop (), and a node that rolls blocks back
SpecRollback == Init /\ [][NextRollback]_vars

\* the processor on a ledger of one long account chain, with one caller that adds
\* a hash whenever the worker is idle, and no stop ()
NextChain == (\E h \in ChainHashes : SeqAdd(h)) \/ RunSeq \/ AddConfirmationHeightSeq
SpecChain == InitOn(ChainLedgers) /\ [][NextChain]_vars

\* the processor on the ledger with the mutual send and the self-send, with one
\* caller that adds a hash of the ledger whenever the worker is idle, and no
\* stop (); the worker takes every step it can take
NextCycle == (\E h \in DOMAIN CycleLedger : SeqAdd(h)) \/ RunSeq \/ AddConfirmationHeightSeq
FairSpecCycle ==
    /\ InitOn(CycleLedgers) /\ [][NextCycle]_vars
    /\ WF_vars(RunSeq) /\ WF_vars(AddConfirmationHeightSeq)

(* ------------------------------ properties ----------------------------- *)
RECURSIVE SumOver(_, _)
SumOver(f, S) == IF S = {} THEN 0 ELSE LET x == CHOOSE y \in S : TRUE IN f[x] + SumOver(f, S \ {x})
\* the total by which the confirmation heights c exceed the heights c0
Increase(c0, c) == SumOver([a \in Accounts |-> c[a] - c0[a]], Accounts)

\* an invocation of add_confirmation_height is in progress or has just returned
InInvocation == wpc \in {"iter", "collect", "decide", "wp_outer", "wp_inner", "stopcheck", "return"}

\* the blocks implicitly confirmed by h: h, and everything reached from it through
\* previous links and receive -> source links
RECURSIVE Reach(_, _)
Reach(l, S) ==
    LET step == S \cup {previous(l, h) : h \in S} \cup {block_source(l, h) : h \in {g \in S : HasSource(l, g)}}
        next == step \ {0}
    IN  IF next = S THEN S ELSE Reach(l, next)

\* C1: an account_put raises the confirmation height of exactly one account to a
\* strictly greater value, and no step ever lowers a confirmation height
C1_HeightsOnlyRise ==
    [][/\ \A a \in Accounts : account_confirmation_height'[a] >= account_confirmation_height[a]
       /\ obs'.applied = obs.applied + 1 =>
            \E a \in Accounts :
                /\ account_confirmation_height'[a] > account_confirmation_height[a]
                /\ \A b \in Accounts \ {a} :
                    account_confirmation_height'[b] = account_confirmation_height[b]]_vars
C1_Witness ==
    \E a \in Accounts : obs.applied >= 2 /\ account_confirmation_height[a] >= obs.start[a] + 2

\* C2: when add_confirmation_height(H) has run to completion, H and every block
\* implicitly confirmed by it are within their accounts' confirmation heights
C2_AllImpliedConfirmed ==
    (wpc = "return" /\ obs.exit = "complete") =>
        \A h \in Reach(blocks, {current_hash}) : Confirmed(blocks, account_confirmation_height, h)
C2_Witness ==
    /\ wpc = "return" /\ obs.exit = "complete"
    /\ \E h \in Reach(blocks, {current_hash}) :
        /\ block_account(blocks, h) # block_account(blocks, current_hash)
        /\ ~Confirmed(blocks, obs.start, h)
        /\ Confirmed(blocks, account_confirmation_height, h)

\* C3: after every write, every confirmed receive has a confirmed source: the
\* entry of the source's account is applied before the entry of the receive
C3_WrittenBottomUp == DependencyClosed(blocks, account_confirmation_height)
C3_Witness ==
    /\ wpc = "wp_inner" /\ pending_writes # <<>>
    /\ LET entry == Front(pending_writes)
       IN  /\ HasSource(blocks, entry.hash)
           /\ ~Confirmed(blocks, account_confirmation_height, entry.hash)
           /\ ~Confirmed(blocks, obs.start, block_source(blocks, entry.hash))
           /\ Confirmed(blocks, account_confirmation_height, block_source(blocks, entry.hash))

\* C4: the num_blocks_confirmed handed to write_pending add up to the rise of the
\* confirmation heights: over a returned invocation, over each write_pending call
\* and over each write transaction
C4_Accounting ==
    /\ wpc = "return" => obs.handed = Increase(obs.start, account_confirmation_height)
    /\ wpc \notin {"wp_outer", "wp_inner"} =>
        obs.call_total = Increase(obs.call_start, account_confirmation_height)
    /\ transaction = "none" => obs.tx_total = Increase(obs.tx_start, account_confirmation_height)
C4_Witness ==
    /\ wpc = "return" /\ obs.exit = "complete" /\ obs.handed >= 2 /\ obs.applied >= 2

\* C5: within an invocation, a block that has become confirmed was passed to
\* confirm_block once, or not at all when it was being processed as it was visited
C5_ConfirmedOnce ==
    \A h \in Hashes :
        /\ obs.calls[h] <= 1
        /\ (~Confirmed(blocks, obs.start, h) /\ Confirmed(blocks, account_confirmation_height, h)) =>
            IF h \in obs.skipped THEN obs.calls[h] = 0 ELSE obs.calls[h] = 1
C5_Witness ==
    /\ wpc = "return"
    /\ \E h, g \in Hashes :
        /\ ~Confirmed(blocks, obs.start, h) /\ Confirmed(blocks, account_confirmation_height, h)
        /\ ~Confirmed(blocks, obs.start, g) /\ Confirmed(blocks, account_confirmation_height, g)
        /\ obs.calls[h] = 1 /\ g \in obs.skipped

\* C6: a block is passed to confirm_block while its height is still above its
\* account's confirmation height
C6_ReportedBeforeWritten ==
    [][\A h \in Hashes :
        obs'.calls[h] > obs.calls[h] => ~Confirmed(blocks, account_confirmation_height, h)]_vars
C6_Witness ==
    \E h \in Hashes : obs.calls[h] = 1 /\ Confirmed(blocks, account_confirmation_height, h)

\* C7: no hash is current while the worker is idle, and is_processing_block(h) is
\* true exactly when h is the nonzero current hash or a member of pending
C7_CurrentOrPending ==
    /\ wpc \in {"start", "check", "body", "towait", "waiting", "woken", "done"} => current_hash = 0
    /\ current_hash \in Hashes \cup {0}
    /\ \A h \in Hashes \cup {0} :
        is_processing_block(current_hash, pending, h)
            <=> ((current_hash # 0 /\ h = current_hash) \/ h \in pending)
C7_Witness ==
    /\ InInvocation /\ current_hash # 0 /\ pending = {}
    /\ is_processing_block(current_hash, pending, current_hash)
    /\ \E h \in Hashes : ~is_processing_block(current_hash, pending, h)

\* C8: from the return of add(H) until the worker clears current_hash after
\* processing H, is_processing_block(H) is true whenever a caller can run it
C8_AddedIsProcessing ==
    \A h \in obs.owed : is_processing_block(current_hash, pending, h)
C8_Witness ==
    /\ InInvocation /\ current_hash \in obs.owed /\ current_hash \notin pending

\* C9: a second add_confirmation_height(H) after a completed one queues no entry,
\* opens no write transaction, calls confirm_block for no block and leaves every
\* confirmation height as it was
C9_RerunChangesNothing ==
    (InInvocation /\ obs.rerun) =>
        /\ pending_writes = <<>>
        /\ obs.handed = 0 /\ obs.tx_count = 0 /\ transaction = "none"
        /\ obs.calls = NoCalls
        /\ account_confirmation_height = obs.start
C9_Witness ==
    /\ wpc = "return" /\ obs.rerun /\ obs.exit = "complete"
    /\ current_hash \in obs.worked

\* C10: once stop () has set the flag and notified, the worker is not left blocked
\* in condition.wait with no notification on its way
C10_StopWakesWorker ==
    (spc = "join" /\ apc.pc = "idle") => wpc # "waiting"

(* ------------------------------- fairness ------------------------------ *)
\* every thread that can take a step takes it; nothing makes the rest of the node
\* call add () or stop (), and nothing makes condition.wait return unnotified
Fairness ==
    /\ WF_vars(AddNotify) /\ WF_vars(StopNotify) /\ WF_vars(StopJoin)
    /\ WF_vars(RunStart \/ RunExit \/ RunLoop \/ RunDequeue \/ RunElse \/ RunWait \/ RunWake \/ RunFinish)
    /\ WF_vars(AddConfirmationHeight)
FairSpec == Spec /\ Fairness

\* C10, as a property of the fair behaviours: a stop () that has begun returns
C10_StopReturns == (spc # "idle") ~> (spc = "idle")

\* the processor while stop () is not called: the callers of add () and the worker,
\* each taking the steps it can take; nothing makes condition.wait return unnotified
NextNoStop == Adder \/ RunSeq \/ RunSpuriousWake \/ AddConfirmationHeightSeq
FairSpecNoStop ==
    /\ Init /\ [][NextNoStop]_vars
    /\ WF_vars(AddNotify) /\ WF_vars(RunSeq) /\ WF_vars(AddConfirmationHeightSeq)

\* C11: when stop () is not called, a hash inserted by add () becomes the current
\* hash with add_confirmation_height running on it, and the worker comes back to an
\* empty pending set with no current hash
C11_AddIsServed ==
    /\ \A h \in Hashes : (h \in pending) ~> (current_hash = h /\ hash_a = h /\ wpc = "begin")
    /\ (pending # {} \/ current_hash # 0) ~> (pending = {} /\ current_hash = 0)
\* add () has inserted and notified while the worker was in condition.wait
C11_Witness ==
    /\ wpc = "woken" /\ apc.pc = "idle" /\ adds > 0 /\ pending # {} /\ stops = 0

\* write_pending is at an entry above the stored confirmation height whose block is
\* not in the store
MissingBlockOnWrite ==
    /\ wpc = "wp_inner" /\ pending_writes # <<>>
    /\ ShouldApply(account_confirmation_height, Front(pending_writes))
    /\ ~source_exists(blocks, Front(pending_writes).hash)

C13_StoppedKeepsPending ==
    [][stopped => pending \subseteq pending']_vars

\* C14: a hash whose invocation stop () interrupted is still in pending when the
\* worker has exited
C14_InterruptedStillQueued ==
    wpc = "done" => obs.interrupted \subseteq pending

\* C15: receive_source_pairs is empty and receive_source_pairs_size is zero when
\* add_confirmation_height is entered and when it has returned
C15_StackEmptyAtEntryAndReturn ==
    wpc \in {"begin", "return"} => (receive_source_pairs = <<>> /\ receive_source_pairs_size = 0)

\* the number of confirm_block calls of the invocation
TotalCalls == SumOver(obs.calls, AllHashes)
\* the invocation is on hash h, above its account's confirmation height, with no
\* receive of an existing source between that height and h
SingleChain(h) ==
    LET a == block_account(blocks, h)
    IN  /\ obs.start[a] < block_account_height(blocks, h)
        /\ \A g \in DOMAIN blocks :
            (/\ block_account(blocks, g) = a
             /\ block_account_height(blocks, g) > obs.start[a]
             /\ block_account_height(blocks, g) <= block_account_height(blocks, h))
                => ~HasSource(blocks, g)

\* C16: on a single chain of N blocks confirmed up to c, processing the block at
\* height N queues and applies one entry (height N, num_blocks_confirmed N - c) in
\* one write transaction, and calls confirm_block for the N - c - 1 blocks below
\* the processed block, which is the current hash and is not reported
C16_SingleChain ==
    (InInvocation /\ current_hash # 0 /\ SingleChain(current_hash)) =>
        LET a == block_account(blocks, current_hash)
            N == block_account_height(blocks, current_hash)
            c == obs.start[a]
        IN  /\ pending_writes \in {<<>>, <<conf_height_details(a, current_hash, N, N - c)>>}
            /\ obs.tx_count <= 1 /\ obs.applied <= 1
            /\ wpc = "return" =>
                /\ obs.exit = "complete"
                /\ obs.applied = 1 /\ obs.tx_count = 1 /\ obs.handed = N - c
                /\ account_confirmation_height = [obs.start EXCEPT ![a] = N]
                /\ TotalCalls = N - c - 1
                /\ obs.calls[current_hash] = 0 /\ obs.skipped = {current_hash}
C16_Witness ==
    /\ wpc = "return" /\ current_hash # 0 /\ SingleChain(current_hash)
    /\ obs.applied = 1 /\ TotalCalls >= 1
    /\ block_account_height(blocks, current_hash)
            >= obs.start[block_account(blocks, current_hash)] + 2
\* C16 as stated: N - c confirm_block calls
C16_CallsEqualBlocks ==
    (wpc = "return" /\ current_hash # 0 /\ SingleChain(current_hash)) =>
        TotalCalls = block_account_height(blocks, current_hash)
                        - obs.start[block_account(blocks, current_hash)]

\* the invocation is on a receive h whose source is the block below it, a send of
\* the account to itself, both above the account's confirmation height
SelfSend(h) ==
    /\ previous(blocks, h) # 0
    /\ block_source(blocks, h) = previous(blocks, h)
    /\ block_account_height(blocks, h) = obs.start[block_account(blocks, h)] + 2

\* C17: on a self-send (A2 a send of A to itself, A3 its receive, A confirmed up to
\* the block below A2), add_confirmation_height(A3) queues two entries, one for A2
\* and one for A3, each with num_blocks_confirmed 1, applies them in that order in
\* one write transaction, scans A2 once, and returns with A at the height of A3
C17_SelfSend ==
    (InInvocation /\ current_hash # 0 /\ SelfSend(current_hash)) =>
        LET a == block_account(blocks, current_hash)
            A2 == previous(blocks, current_hash)
            c == obs.start[a]
            send == conf_height_details(a, A2, c + 1, 1)
            receive == conf_height_details(a, current_hash, c + 2, 1)
        IN  /\ pending_writes \in {<<>>, <<send, receive>>, <<receive>>}
            /\ obs.calls[A2] <= 1
            /\ wpc = "return" =>
                /\ obs.exit = "complete"
                /\ obs.applied = 2 /\ obs.tx_count = 1 /\ obs.handed = 2
                /\ account_confirmation_height = [obs.start EXCEPT ![a] = c + 2]
                /\ obs.calls[A2] = 1 /\ TotalCalls = 1
C17_Witness ==
    /\ wpc = "return" /\ current_hash # 0 /\ SelfSend(current_hash)
    /\ obs.applied = 2
    /\ Confirmed(blocks, account_confirmation_height, current_hash)
\* C17 as stated: one account write raises the account by two blocks
C17_SingleWrite ==
    (wpc = "return" /\ current_hash # 0 /\ SelfSend(current_hash)) =>
        (obs.applied = 1 /\ obs.handed = 2)

\* ceil (n / d)
Ceil(n, d) == (n + d - 1) \div d

\* C18: on a single chain with N unconfirmed blocks and no receive, processing the
\* top block opens one write transaction, for its one entry, whatever N is:
\* write_pending counts entries, not blocks, against batch_write_size
C18_OneWriteTransaction ==
    (InInvocation /\ current_hash # 0 /\ SingleChain(current_hash)) =>
        /\ Len(pending_writes) <= 1
        /\ obs.tx_count <= 1
        /\ wpc = "return" => (obs.tx_count = 1 /\ obs.applied = 1)
\* a chain with more unconfirmed blocks than batch_write_size has been processed
C18_Witness ==
    /\ wpc = "return" /\ current_hash # 0 /\ SingleChain(current_hash)
    /\ obs.handed > batch_write_size /\ obs.tx_count = 1
    /\ Confirmed(blocks, account_confirmation_height, current_hash)
\* C18 as stated: ceil (N / batch_write_size) write transactions
C18_BatchPerBlocks ==
    (wpc = "return" /\ current_hash # 0 /\ SingleChain(current_hash)) =>
        obs.tx_count =
            Ceil(block_account_height(blocks, current_hash)
                    - obs.start[block_account(blocks, current_hash)], batch_write_size)

\* C19: every invocation of add_confirmation_height comes to the end of its loop
\* with an empty stack, current back at the original hash and nothing left to
\* write, and every write_pending call returns with its count at zero and the
\* queue of entries empty
C19_Terminates ==
    /\ (wpc = "begin") ~>
            (/\ wpc = "stopcheck" /\ receive_source_pairs = <<>> /\ current = hash_a
             /\ pending_writes = <<>>)
    /\ (wpc = "wp_outer") ~>
            (wpc = "stopcheck" /\ total_pending_write_block_count = 0 /\ pending_writes = <<>>)
\* the receive of the self-send has been processed from the lowest confirmation
\* heights: both accounts, the mutual send included, are confirmed to the top
C19_Witness ==
    /\ wpc = "return" /\ obs.exit = "complete" /\ blocks = CycleLedger /\ current_hash = 7
    /\ obs.start[1] = 1 /\ obs.start[2] = 0
    /\ account_confirmation_height[1] = 5 /\ account_confirmation_height[2] = 2

\* C20: within an invocation no block is visited twice by the descents, and a
\* descent visits the blocks of the account that lie above the stored confirmation
\* height and above the confirmed and iterated heights recorded for the account
C20_NoDuplicateScan ==
    /\ \A h \in AllHashes : obs.visits[h] <= 1
    /\ wpc = "collect" =>
        LET pair == confirmed_iterated_pairs[account]
        IN  /\ iterated_height >= account_confirmation_height[account]
            /\ pair # None =>
                (iterated_height >= pair.confirmed_height /\ iterated_height >= pair.iterated_height)
            /\ (num_to_confirm > 0 /\ hash # 0) =>
                /\ block_account(blocks, hash) = account
                /\ block_account_height(blocks, hash) = iterated_height + num_to_confirm
                /\ obs.visits[hash] = 0
\* the invocation is back at a block it has scanned, still above the stored
\* confirmation height, and does not scan it again
C20_Witness ==
    /\ wpc = "decide" /\ obs.visits[current] = 1
    /\ confirmed_iterated_pairs[account] # None
    /\ block_height > account_confirmation_height[account]
    /\ block_height <= iterated_height

\* C21: an entry that write_pending applies names a block of the store, of the
\* entry's account and at the entry's height, and its num_blocks_confirmed is the
\* entry's height less the confirmation height stored for the account at that
\* moment: a positive count, not the sentinel; and write_pending returns with the
\* queue of entries empty
C21_EntryValidAtApply ==
    /\ (wpc = "wp_inner" /\ pending_writes # <<>>
            /\ ShouldApply(account_confirmation_height, Front(pending_writes))) =>
        LET entry == Front(pending_writes)
        IN  /\ block_get(blocks, entry.hash)
            /\ block_account(blocks, entry.hash) = entry.account
            /\ block_account_height(blocks, entry.hash) = entry.height
            /\ entry.num_blocks_confirmed = entry.height - account_confirmation_height[entry.account]
            /\ entry.num_blocks_confirmed # height_not_set
            /\ entry.num_blocks_confirmed > 0
    /\ (wpc = "wp_outer" /\ ~(total_pending_write_block_count > 0)) => pending_writes = <<>>
\* the second entry of a write transaction is applied to an account that the
\* first entry has raised
C21_Witness ==
    /\ wpc = "wp_inner" /\ pending_writes # <<>> /\ num_accounts_processed = 1
    /\ ShouldApply(account_confirmation_height, Front(pending_writes))
    /\ account_confirmation_height[Front(pending_writes).account]
            > obs.start[Front(pending_writes).account]

\* C22: the worker never holds an active read transaction and an open write
\* transaction together; the read transaction is reset all the while
\* write_pending runs, so it is reset before the call and renewed after the
\* return; and the reads of the traversal (lines 133-135 and the descent) are
\* made with the read transaction active
C22_TransactionDiscipline ==
    /\ ~(read_transaction = "active" /\ transaction = "open")
    /\ transaction = "open" => wpc = "wp_inner"
    /\ wpc \in {"wp_outer", "wp_inner"} => read_transaction = "reset"
    /\ wpc \in {"iter", "collect"} => read_transaction = "active" /\ transaction = "none"
\* a pass of the loop reads the store again after a write transaction of the
\* same invocation
C22_Witness ==
    /\ wpc \in {"iter", "collect"} /\ read_transaction = "active"
    /\ obs.tx_count > 0 /\ obs.applied > 0

\* C23: a step of the descent (lines 321-367) leaves every frame that was on
\* the stack when the descent began (the first count_before_receive frames, line
\* 152) as it was, num_blocks_confirmed included
C23_DescentKeepsOlderFrames ==
    [][wpc = "collect" =>
        \A i \in 1 .. count_before_receive :
            receive_source_pairs'[i].receive_details = receive_source_pairs[i].receive_details]_vars
\* what the descent does keep: of the frames that were on the stack when it
\* began, only num_blocks_confirmed of the last one can change, and only at the
\* fix-up of lines 364-367 of a descent that pushed no frame
C23_OnlyLastOlderCountChanges ==
    [][wpc = "collect" =>
        /\ \A i \in 1 .. count_before_receive :
              /\ receive_source_pairs'[i].source_hash = receive_source_pairs[i].source_hash
              /\ [receive_source_pairs'[i].receive_details EXCEPT !.num_blocks_confirmed = 0]
                    = [receive_source_pairs[i].receive_details EXCEPT !.num_blocks_confirmed = 0]
              /\ receive_source_pairs'[i] # receive_source_pairs[i] =>
                    /\ i = count_before_receive
                    /\ Len(receive_source_pairs') = count_before_receive
                    /\ wpc' = "decide"]_vars
====
